---- MODULE Spec2Model ----
(***************************************************************************)
(* Model of mate/gfwlist.go: the gfwlist provider of clash-mate.           *)
(*                                                                         *)
(* A Go string is a sequence of one-character strings, so that prefix      *)
(* tests, cut-set trimming, splitting and joining are computed as the      *)
(* standard library computes them.                                         *)
(*                                                                         *)
(* Three specifications share the module:                                  *)
(*   Spec        the provider: the refresh goroutine of start(), the       *)
(*               RWMutex, and concurrent Handle calls;                     *)
(*   SpecParse   one parse pass of parseToList over a decoded document;    *)
(*   SpecRender  renderClashRules over three arbitrary lists.              *)
(***************************************************************************)
EXTENDS Integers, Sequences, FiniteSets

VARIABLES pc, rules, built, mu, hpc, resp, timer, sinceFinish, interval, lastGood, cycle,
          doc, scanErr, pos, acc, last, out, ppc,
          rin, rout, rpc

providerVars == <<pc, rules, built, mu, hpc, resp, timer, sinceFinish, interval, lastGood, cycle>>
parseVars == <<doc, scanErr, pos, acc, last, out, ppc>>
renderVars == <<rin, rout, rpc>>
vars == <<providerVars, parseVars, renderVars>>

(***************************************************************************)
(* Bounds of the model.                                                    *)
(***************************************************************************)
\* longest generated line body (characters after the prefix marker)
MaxBodyLen == 3
\* most lines in a multi-line document
MaxDocLines == 3
\* longest list handed to renderClashRules
MaxListLen == 2
\* number of concurrent Handle calls
NumReaders == 2
\* largest configured interval, in hours
MaxInterval == 2

(***************************************************************************)
(* strings package                                                         *)
(***************************************************************************)
HasPrefix(s, p) ==
    Len(s) >= Len(p) /\ SubSeq(s, 1, Len(p)) = p

HasSuffix(s, p) ==
    Len(s) >= Len(p) /\ SubSeq(s, Len(s) - Len(p) + 1, Len(s)) = p

\* strings.Contains(s, c) for a one-character c
Contains(s, c) ==
    \E i \in 1..Len(s) : s[i] = c

\* strings.IndexByte, 1-based; 0 when absent
IndexByte(s, c) ==
    IF Contains(s, c) THEN CHOOSE i \in 1..Len(s) : s[i] = c /\ \A j \in 1..(i - 1) : s[j] # c
    ELSE 0

\* strings.LastIndex for a one-character separator, 1-based; 0 when absent
LastIndex(s, c) ==
    IF Contains(s, c) THEN CHOOSE i \in 1..Len(s) : s[i] = c /\ \A j \in (i + 1)..Len(s) : s[j] # c
    ELSE 0

\* strings.TrimLeft(s, cutset): drops every leading character that is in the cut set
RECURSIVE TrimLeft(_, _)
TrimLeft(s, cutset) ==
    IF s # <<>> /\ Head(s) \in cutset THEN TrimLeft(Tail(s), cutset) ELSE s

RECURSIVE TrimRight(_, _)
TrimRight(s, cutset) ==
    IF s # <<>> /\ s[Len(s)] \in cutset THEN TrimRight(SubSeq(s, 1, Len(s) - 1), cutset) ELSE s

\* strings.Trim(s, cutset)
Trim(s, cutset) ==
    TrimRight(TrimLeft(s, cutset), cutset)

\* strings.Split(s, sep) for a one-character sep: Split("", sep) is [""]
RECURSIVE Split(_, _)
Split(s, sep) ==
    LET i == IndexByte(s, sep)
    IN  IF i = 0 THEN <<s>>
        ELSE <<SubSeq(s, 1, i - 1)>> \o Split(SubSeq(s, i + 1, Len(s)), sep)

\* strings.Join(elems, sep)
RECURSIVE Join(_, _)
Join(elems, sep) ==
    IF elems = <<>> THEN <<>>
    ELSE IF Len(elems) = 1 THEN elems[1]
    ELSE elems[1] \o sep \o Join(Tail(elems), sep)

\* the characters of a cut-set argument
CharsOf(s) ==
    {s[i] : i \in 1..Len(s)}

(***************************************************************************)
(* Character classes                                                       *)
(***************************************************************************)
Digits ==
    <<"0", "1", "2", "3", "4", "5", "6", "7", "8", "9">>

Lower ==
    {"a", "b", "c", "d", "e", "f", "g", "h", "i", "j", "k", "l", "m",
     "n", "o", "p", "q", "r", "s", "t", "u", "v", "w", "x", "y", "z"}

Upper ==
    {"A", "B", "C", "D", "E", "F", "G", "H", "I", "J", "K", "L", "M",
     "N", "O", "P", "Q", "R", "S", "T", "U", "V", "W", "X", "Y", "Z"}

IsDigit(c) ==
    \E i \in 1..10 : Digits[i] = c

DigitVal(c) ==
    (CHOOSE i \in 1..10 : Digits[i] = c) - 1

IsHex(c) ==
    IsDigit(c) \/ c \in {"a", "b", "c", "d", "e", "f", "A", "B", "C", "D", "E", "F"}

\* net/url shouldEscape(c, encodeHost) = false: the characters a host may hold
HostChars ==
    Lower \cup Upper \cup CharsOf(Digits)
        \cup {"!", "$", "&", "'", "(", ")", "*", "+", ",", ";", "=", ":", "[", "]", "<", ">", "\""}
        \cup {"-", "_", ".", "~"}

(***************************************************************************)
(* net.ParseIP                                                             *)
(***************************************************************************)
RECURSIVE DecVal(_)
DecVal(s) ==
    IF s = <<>> THEN 0 ELSE 10 * DecVal(SubSeq(s, 1, Len(s) - 1)) + DigitVal(s[Len(s)])

\* one dotted-decimal field: 1 to 3 digits, no leading zero, at most 255
IsOctet(f) ==
    /\ Len(f) \in 1..3
    /\ \A i \in 1..Len(f) : IsDigit(f[i])
    /\ (Len(f) > 1 => f[1] # "0")
    /\ DecVal(f) <= 255

\* four dotted-decimal fields
AreOctets(f) ==
    Len(f) = 4 /\ \A i \in 1..4 : IsOctet(f[i])

IsIPv4(v) ==
    AreOctets(Split(v, "."))

\* one group of an IPv6 literal: 1 to 4 hex digits
IsHexGroup(f) ==
    Len(f) \in 1..4 /\ \A i \in 1..Len(f) : IsHex(f[i])

\* the groups of one side of an IPv6 literal ("" holds none)
GroupsOf(s) ==
    IF s = <<>> THEN <<>> ELSE Split(s, ":")

\* first index of "::" in v; 0 when absent
EllipsisAt(v) ==
    IF \E i \in 1..(Len(v) - 1) : v[i] = ":" /\ v[i + 1] = ":"
    THEN CHOOSE i \in 1..(Len(v) - 1) :
            /\ v[i] = ":" /\ v[i + 1] = ":"
            /\ \A j \in 1..(i - 1) : ~(v[j] = ":" /\ v[j + 1] = ":")
    ELSE 0

\* eight groups, no ellipsis
AreEightGroups(g) ==
    Len(g) = 8 /\ \A i \in 1..8 : IsHexGroup(g[i])

\* the groups l before and r after an ellipsis, which stands for at least one group
AreGroupsAround(l, r) ==
    /\ \A i \in 1..Len(l) : IsHexGroup(l[i])
    /\ \A i \in 1..Len(r) : IsHexGroup(r[i])
    /\ Len(l) + Len(r) <= 7

\* v with its first ellipsis at e
IsIPv6At(v, e) ==
    IF e = 0 THEN AreEightGroups(Split(v, ":"))
    ELSE AreGroupsAround(GroupsOf(SubSeq(v, 1, e - 1)), GroupsOf(SubSeq(v, e + 2, Len(v))))

\* an IPv6 literal without zone and without an embedded dotted quad
IsIPv6(v) ==
    IsIPv6At(v, EllipsisAt(v))

isIP(v) ==
    IsIPv4(v) \/ IsIPv6(v)

(***************************************************************************)
(* net/url, for strings that hold no '%' and no control character          *)
(***************************************************************************)
\* url.QueryUnescape: '+' becomes a space (there is no '%' escape to decode)
QueryUnescape(s) ==
    [i \in 1..Len(s) |-> IF s[i] = "+" THEN " " ELSE s[i]]

\* the part of s before the first c (strings.Cut)
Before(s, c) ==
    IF Contains(s, c) THEN SubSeq(s, 1, IndexByte(s, c) - 1) ELSE s

\* validOptionalPort: "" or ':' followed by digits only
validOptionalPort(port) ==
    port = <<>> \/ (Head(port) = ":" /\ \A i \in 2..Len(port) : IsDigit(port[i]))

\* validUserinfo
UserinfoChars ==
    Lower \cup Upper \cup CharsOf(Digits)
        \cup {"-", ".", "_", ":", "~", "!", "$", "&", "'", "(", ")", "*", "+", ",", ";", "=", "%", "@"}

\* parseHost's test of what follows the host: a valid optional port
portOK(host) ==
    IF HasPrefix(host, <<"[">>)
    THEN /\ Contains(host, "]")
         /\ validOptionalPort(SubSeq(host, LastIndex(host, "]") + 1, Len(host)))
    ELSE \/ ~Contains(host, ":")
         \/ validOptionalPort(SubSeq(host, LastIndex(host, ":"), Len(host)))

\* parseHost: [err, host]
parseHost(host) ==
    IF portOK(host) /\ \A i \in 1..Len(host) : host[i] \in HostChars
    THEN [err |-> FALSE, host |-> host]
    ELSE [err |-> TRUE, host |-> <<>>]

\* parseAuthority with the last '@' at i (0: none): [err, host]
parseAuthorityAt(authority, i) ==
    IF i > 0 /\ \E j \in 1..(i - 1) : authority[j] \notin UserinfoChars
    THEN [err |-> TRUE, host |-> <<>>]
    ELSE parseHost(SubSeq(authority, i + 1, Len(authority)))

parseAuthority(authority) ==
    parseAuthorityAt(authority, LastIndex(authority, "@"))

\* s without its first n characters
Drop(s, n) ==
    SubSeq(s, n + 1, Len(s))

\* url.Parse of a string that starts with "http://": [err, host], host being URL.Host.
\* The fragment is cut at '#', the scheme "http:" taken, the query cut at '?',
\* and the authority is what lies between "//" and the next '/'.
Parse(rawURL) ==
    parseAuthority(Before(Drop(Before(Drop(Before(rawURL, "#"), 5), "?"), 2), "/"))

\* URL.Hostname: stripPort(URL.Host)
Hostname(host) ==
    IF ~Contains(host, ":") THEN host
    ELSE IF Contains(host, "]")
    THEN LET h == SubSeq(host, 1, IndexByte(host, "]") - 1)
         IN  IF HasPrefix(h, <<"[">>) THEN Tail(h) ELSE h
    ELSE SubSeq(host, 1, IndexByte(host, ":") - 1)

(***************************************************************************)
(* type t and the classifier                                               *)
(***************************************************************************)
unknown == 0
ip == 1
domain == 2
domainKeyword == 3

Http ==
    <<"h", "t", "t", "p", ":", "/", "/">>

Https ==
    <<"h", "t", "t", "p", "s", ":", "/", "/">>

Star ==
    {"*"}

\* the deferred strings.Trim(vv, "*") of tryGetDomain
TrimStarNone(vv) ==
    vv

TrimStar(vv) ==
    Trim(vv, Star)

\* pairs[len(pairs)-2:]: the caller has checked Len(pairs) >= 2
LastTwo(pairs) ==
    SubSeq(pairs, Len(pairs) - 1, Len(pairs))

\* the result of a classification: the type, the value, and whether the call
\* panicked instead of returning (slice bounds out of range)
Result(typ, v) ==
    [t |-> typ, v |-> v, panic |-> FALSE]

Panic ==
    [t |-> unknown, v |-> <<>>, panic |-> TRUE]

\* lines 157-158: the last two labels, or the panic of a slice that starts at -1
lastTwoLabels(pairs) ==
    IF Len(pairs) < 2 THEN Panic
    ELSE Result(domain, TrimStar(Join(LastTwo(pairs), <<".">>)))

\* lines 151-158 with the full flag ignored: every domain is reduced
classifyHostnameReduced(hostname, full) ==
    IF isIP(hostname) THEN Result(ip, TrimStar(hostname))
    ELSE lastTwoLabels(Split(hostname, "."))

\* lines 151-158
classifyHostname(hostname, full) ==
    IF isIP(hostname) THEN Result(ip, TrimStar(hostname))
    ELSE IF full THEN Result(domain, TrimStar(hostname))
    ELSE lastTwoLabels(Split(hostname, "."))

\* lines 146-158
classifyParsed(parse, full) ==
    IF parse.err THEN Result(unknown, TrimStar(<<>>))
    ELSE classifyHostname(Hostname(parse.host), full)

\* lines 142-144
withScheme(v) ==
    IF HasPrefix(v, Http) THEN v ELSE Http \o v

tryGetDomain(v, full) ==
    classifyParsed(Parse(QueryUnescape(withScheme(v))), full)

tryGetDomainOrIP(v) ==
    tryGetDomain(v, FALSE)

\* lines 178-182
keywordOr(r) ==
    IF r.panic THEN r
    ELSE IF HasSuffix(r.v, <<"*">>) THEN Result(domainKeyword, Split(r.v, ".")[1])
    ELSE r

parseLine(line) ==
    IF HasPrefix(line, <<"|">>)
    THEN tryGetDomain(TrimLeft(TrimLeft(line, {"|"}), CharsOf(Http)), TRUE)
    ELSE IF HasPrefix(line, <<"|", "|">>) \/ HasPrefix(line, Http)
    THEN tryGetDomainOrIP(TrimLeft(TrimLeft(TrimLeft(line, {"|"}), CharsOf(Http)), CharsOf(Https)))
    ELSE IF HasPrefix(line, <<".">>)
    THEN keywordOr(tryGetDomainOrIP(TrimLeft(line, {"."})))
    ELSE IF Contains(line, ".")
    THEN tryGetDomain(line, TRUE)
    ELSE IF isIP(line)
    THEN Result(ip, line)
    ELSE Result(unknown, <<>>)

(***************************************************************************)
(* uniqueList and parseToList                                              *)
(***************************************************************************)
\* the body of uniqueList's loop without the m[v] test
KeepDuplicate(newList, v) ==
    IF v = <<>> THEN newList ELSE Append(newList, v)

\* the body of uniqueList's loop: m[v] holds exactly for the values appended so far
UniqueStep(newList, v) ==
    IF (\E i \in 1..Len(newList) : newList[i] = v) \/ v = <<>> THEN newList
    ELSE Append(newList, v)

RECURSIVE UniqueFrom(_, _)
UniqueFrom(newList, list) ==
    IF list = <<>> THEN newList ELSE UniqueFrom(UniqueStep(newList, Head(list)), Tail(list))

uniqueList(list) ==
    UniqueFrom(<<>>, list)

\* the lists of parseToList before any line is scanned
EmptyAcc ==
    [domainList |-> <<>>, ipList |-> <<>>, domainKeywordList |-> <<>>, panic |-> FALSE]

\* lines 202-209: empty lines, comments, regex and allow-list lines are skipped
Skipped(line) ==
    line = <<>> \/ Head(line) \in {"!", "[", "/", "@"}

\* lines 212-219: the switch on the type
Route(a, r) ==
    IF r.panic THEN [a EXCEPT !.panic = TRUE]
    ELSE IF r.t = ip THEN [a EXCEPT !.ipList = Append(@, r.v)]
    ELSE IF r.t = domain THEN [a EXCEPT !.domainList = Append(@, r.v)]
    ELSE IF r.t = domainKeyword THEN [a EXCEPT !.domainKeywordList = Append(@, r.v)]
    ELSE a

\* one iteration of the scan loop (lines 201-219)
ScanStep(a, line) ==
    IF Skipped(line) THEN a ELSE Route(a, parseLine(line))

RECURSIVE ScanFrom(_, _)
ScanFrom(a, lines) ==
    IF lines = <<>> \/ a.panic THEN a ELSE ScanFrom(ScanStep(a, Head(lines)), Tail(lines))

\* the return statement of parseToList (line 221)
ParseReturn(a, err) ==
    [domainList |-> uniqueList(a.domainList), ipList |-> uniqueList(a.ipList),
     domainKeywordList |-> a.domainKeywordList, err |-> err, panic |-> FALSE]

\* parseToList over a stream that decodes to `lines` and then ends, with a
\* decode or scan error when err
ReturnOrPanic(a, err) ==
    IF a.panic THEN [domainList |-> <<>>, ipList |-> <<>>, domainKeywordList |-> <<>>,
                     err |-> FALSE, panic |-> TRUE]
    ELSE ParseReturn(a, err)

parseToList(lines, err) ==
    ReturnOrPanic(ScanFrom(EmptyAcc, lines), err)

(***************************************************************************)
(* Inputs: lines and documents                                             *)
(***************************************************************************)
L_pp_a_com ==
    <<"|", "|", "a", ".", "c", "o", "m">>

L_sub_a_com ==
    <<"s", "u", "b", ".", "a", ".", "c", "o", "m">>

L_dot_localhost ==
    <<".", "l", "o", "c", "a", "l", "h", "o", "s", "t">>

L_http_localhost ==
    <<"h", "t", "t", "p", ":", "/", "/", "l", "o", "c", "a", "l", "h", "o", "s", "t">>

L_dot ==
    <<".">>

L_1234 ==
    <<"1", ".", "2", ".", "3", ".", "4">>

L_comment ==
    <<"!", " ", "c", "o", "m", "m", "e", "n", "t">>

L_pp_tracker ==
    <<"|", "|", "t", "r", "a", "c", "k", "e", "r", ".", "e", "x", "a", "m", "p", "l", "e", ".", "o", "r", "g", "^">>

L_pp_sub_example ==
    <<"|", "|", "s", "u", "b", ".", "e", "x", "a", "m", "p", "l", "e", ".", "c", "o", "m">>

L_p_sub_example ==
    <<"|", "s", "u", "b", ".", "e", "x", "a", "m", "p", "l", "e", ".", "c", "o", "m">>

L_dot_ads ==
    <<".", "a", "d", "s", ".", "e", "x", "a", "m", "p", "l", "e", ".", "c", "o", "m">>

L_pp_1234 ==
    <<"|", "|", "1", ".", "2", ".", "3", ".", "4">>

L_http_1234 ==
    <<"h", "t", "t", "p", ":", "/", "/", "1", ".", "2", ".", "3", ".", "4">>

L_v6 ==
    <<":", ":", "1">>

L_pipe ==
    <<"|">>

L_plus ==
    <<"a", "+", "b", ".", "c", "o", "m">>

a_com ==
    <<"a", ".", "c", "o", "m">>

sub_a_com ==
    <<"s", "u", "b", ".", "a", ".", "c", "o", "m">>

example_com ==
    <<"e", "x", "a", "m", "p", "l", "e", ".", "c", "o", "m">>

example_org ==
    <<"e", "x", "a", "m", "p", "l", "e", ".", "o", "r", "g">>

ip_1234 ==
    <<"1", ".", "2", ".", "3", ".", "4">>


\* all sequences over S of length at most n
RECURSIVE SeqsUpTo(_, _)
SeqsUpTo(S, n) ==
    IF n = 0 THEN {<<>>}
    ELSE LET shorter == SeqsUpTo(S, n - 1)
         IN  shorter \cup {Append(q, x) : q \in {r \in shorter : Len(r) = n - 1}, x \in S}

\* the markers a gfwlist line may start with
Prefixes ==
    {<<>>, <<"|">>, <<"|", "|">>, <<".">>, Http, <<"|">> \o Http, <<"|", "|">> \o Http, Https}

\* a letter, a letter of the cut set "http://", the label separator, the
\* wildcard, a character no host may hold, and the path separator
BodyChars ==
    {"a", "t", ".", "*", "^", "/"}

\* the lines of the specification's scenarios and of the claims
ScenarioLines ==
    {L_pp_a_com, L_sub_a_com, L_dot_localhost, L_http_localhost, L_dot, L_1234, L_comment,
     L_pp_tracker, L_pp_sub_example, L_p_sub_example, L_dot_ads, L_pp_1234, L_http_1234,
     L_v6, L_pipe, L_plus}

Lines ==
    ScenarioLines \cup {p \o b : p \in Prefixes, b \in SeqsUpTo(BodyChars, MaxBodyLen)}

\* the lines of multi-line documents
DocLines ==
    {L_pp_a_com, L_sub_a_com, L_1234, L_pipe, L_comment, L_dot_localhost}

Docs ==
    {<<l>> : l \in Lines} \cup SeqsUpTo(DocLines, MaxDocLines)

(***************************************************************************)
(* SpecParse: one parse pass (parseToList) over a decoded document         *)
(***************************************************************************)
NoResult ==
    [t |-> unknown, v |-> <<>>, panic |-> FALSE]

NoOut ==
    [domainList |-> <<>>, ipList |-> <<>>, domainKeywordList |-> <<>>, err |-> FALSE, panic |-> FALSE]

ParseIdle ==
    /\ doc = <<>> /\ scanErr = FALSE /\ pos = 1 /\ acc = EmptyAcc
    /\ last = NoResult /\ out = NoOut /\ ppc = "idle"

\* scanner.Scan() returned true: one iteration of the loop
ScanLine ==
    /\ ppc = "scan"
    /\ pos <= Len(doc)
    /\ acc' = ScanStep(acc, doc[pos])
    /\ last' = IF Skipped(doc[pos]) THEN last ELSE parseLine(doc[pos])
    /\ pos' = pos + 1
    /\ ppc' = IF acc'.panic THEN "panic" ELSE "scan"
    /\ UNCHANGED <<doc, scanErr, out>>

\* scanner.Scan() returned false: the return statement
ScanEnd ==
    /\ ppc = "scan"
    /\ pos > Len(doc)
    /\ out' = ParseReturn(acc, scanErr)
    /\ ppc' = "returned"
    /\ UNCHANGED <<doc, scanErr, pos, acc, last>>

(***************************************************************************)
(* renderClashRules and update                                             *)
(***************************************************************************)
KeywordPrefix ==
    <<"D", "O", "M", "A", "I", "N", "-", "K", "E", "Y", "W", "O", "R", "D", ",">>

CidrPrefix ==
    <<"S", "R", "C", "-", "I", "P", "-", "C", "I", "D", "R", ",">>

CidrSuffix ==
    <<"/", "3", "2">>

SuffixPrefix ==
    <<"D", "O", "M", "A", "I", "N", "-", "S", "U", "F", "F", "I", "X", ",">>

\* one loop of renderClashRules: fmt.Sprintf(prefix + "%s" + suffix) of every entry, in order
Sprintfs(prefix, list, suffix) ==
    [i \in 1..Len(list) |-> prefix \o list[i] \o suffix]

\* renderClashRules with the domain block first
renderDomainsFirst(domainList, ipList, domainKeywordList) ==
    Sprintfs(SuffixPrefix, domainList, <<>>)
        \o Sprintfs(CidrPrefix, ipList, CidrSuffix)
        \o Sprintfs(KeywordPrefix, domainKeywordList, <<>>)

renderClashRules(domainList, ipList, domainKeywordList) ==
    Sprintfs(KeywordPrefix, domainKeywordList, <<>>)
        \o Sprintfs(CidrPrefix, ipList, CidrSuffix)
        \o Sprintfs(SuffixPrefix, domainList, <<>>)

\* yaml.Marshal(map[string]interface{}{"payload": rules}): a document with the
\* single key payload, holding the list in order
Marshal(r) ==
    <<"payload", r>>

\* s.rules of a provider that has published nothing: a nil byte slice
EmptyRules ==
    <<>>

\* the answers of http.Get: a transport error, a status other than 200, or a
\* 200 whose body decodes to `lines` and then ends, with a base64 or scan error when err
Responses ==
    {[kind |-> k, lines |-> <<>>, err |-> FALSE] : k \in {"transport", "status"}}
        \cup {[kind |-> "ok", lines |-> l, err |-> e] : l \in SeqsUpTo(DocLines, MaxDocLines), e \in BOOLEAN}

\* download: whether it returns an error
downloadErr(d) ==
    d.kind # "ok"

\* lines 84-90: the document built from the three lists
build(p) ==
    [err |-> FALSE, panic |-> FALSE,
     b |-> Marshal(renderClashRules(p.domainList, p.ipList, p.domainKeywordList))]

\* lines 80-90 without the test of parseToList's error
afterParseIgnoringErr(p) ==
    IF p.panic THEN [err |-> FALSE, panic |-> TRUE, b |-> EmptyRules]
    ELSE build(p)

\* lines 80-90, p being what parseToList returned
afterParse(p) ==
    IF p.panic THEN [err |-> FALSE, panic |-> TRUE, b |-> EmptyRules]
    ELSE IF p.err THEN [err |-> TRUE, panic |-> FALSE, b |-> EmptyRules]
    ELSE build(p)

\* update up to line 90: [err, panic, b]
update(d) ==
    IF downloadErr(d) THEN [err |-> TRUE, panic |-> FALSE, b |-> EmptyRules]
    ELSE afterParse(parseToList(d.lines, d.err))

\* what the remote did to the cycle: nothing, or the fault update must survive
Fault(d) ==
    IF d.kind # "ok" THEN d.kind ELSE IF d.err THEN "decode" ELSE "none"

\* what update comes to before line 91, for every answer of the remote
Outcomes ==
    {[fault |-> Fault(d), u |-> update(d)] : d \in Responses}

(***************************************************************************)
(* sync.RWMutex                                                            *)
(***************************************************************************)
Readers ==
    1..NumReaders

Unlocked ==
    [readers |-> {}, writer |-> "none"]

\* RLock returns only while no writer holds or waits for the lock
CanRLock(m) ==
    m.writer = "none"

\* a Lock that does not wait for the readers
CanLockAmongReaders(m) ==
    m.writer = "waiting"

\* Lock returns once every reader that held the lock has released it
CanLock(m) ==
    m.writer = "waiting" /\ m.readers = {}

(***************************************************************************)
(* start(): the timer                                                      *)
(***************************************************************************)
\* time.Hour, in hours
defaultInterval == 1

\* start() without the default of lines 109-111
intervalAsConfigured(i) ==
    i

\* lines 108-111
effectiveInterval(i) ==
    IF i <= 0 THEN defaultInterval ELSE i

\* time.NewTimer(d), timer.Reset(d): the time left until the timer fires
arm(d) ==
    IF d <= 0 THEN 0 ELSE d

NotArmed == -1

(***************************************************************************)
(* Spec: the provider                                                      *)
(***************************************************************************)
\* bookkeeping of the cycles: n is 0 before the first cycle, 1 during and after
\* the first, 2 from the second on; waited is the time between the previous
\* cycle's end and this cycle's start; outcome is what update returned; fault is
\* what the remote did to the cycle
NoCycle ==
    [n |-> 0, waited |-> 0, outcome |-> "none", fault |-> "none"]

RenderIdle ==
    rin = <<>> /\ rout = <<>> /\ rpc = "idle"

\* newGfwlistProvider: go s.start() on a zero gfwlistProvider whose interval field
\* holds any configured value
Init ==
    /\ pc = "start"
    /\ rules = EmptyRules
    /\ built = EmptyRules
    /\ mu = Unlocked
    /\ hpc = [r \in Readers |-> "idle"]
    /\ resp = [r \in Readers |-> EmptyRules]
    /\ timer = NotArmed
    /\ sinceFinish = 0
    /\ interval \in -1..MaxInterval
    /\ lastGood = EmptyRules
    /\ cycle = NoCycle
    /\ ParseIdle
    /\ RenderIdle

Alive ==
    pc # "crashed"

\* line 107: the first update(), before any timer exists
StartFirst ==
    /\ pc = "start"
    /\ pc' = "download"
    /\ cycle' = [n |-> 1, waited |-> 0, outcome |-> "running", fault |-> "none"]
    /\ UNCHANGED <<rules, built, mu, hpc, resp, timer, sinceFinish, interval, lastGood>>

\* update returns an error at line 77 or 81
UpdateFails ==
    /\ pc = "download"
    /\ \E o \in Outcomes :
        /\ o.u.err
        /\ cycle' = [cycle EXCEPT !.outcome = "failed", !.fault = o.fault]
    /\ pc' = "returned"
    /\ UNCHANGED <<rules, built, mu, hpc, resp, timer, sinceFinish, interval, lastGood>>

\* parseToList panics: the goroutine has no recover, the process exits
UpdatePanics ==
    /\ pc = "download"
    /\ \E o \in Outcomes : o.u.panic
    /\ pc' = "crashed"
    /\ UNCHANGED <<rules, built, mu, hpc, resp, timer, sinceFinish, interval, lastGood, cycle>>

\* lines 75-90: the new document is built
UpdateBuilds ==
    /\ pc = "download"
    /\ \E o \in Outcomes :
        /\ ~o.u.err /\ ~o.u.panic
        /\ built' = o.u.b
        /\ cycle' = [cycle EXCEPT !.fault = o.fault]
    /\ pc' = "lock"
    /\ UNCHANGED <<rules, mu, hpc, resp, timer, sinceFinish, interval, lastGood>>

\* line 91, s.mu.Lock(): the writer announces itself
UpdateLock ==
    /\ pc = "lock"
    /\ mu' = [mu EXCEPT !.writer = "waiting"]
    /\ pc' = "lockwait"
    /\ UNCHANGED <<rules, built, hpc, resp, timer, sinceFinish, interval, lastGood, cycle>>

\* line 91, s.mu.Lock() returns
UpdateLockAcquire ==
    /\ pc = "lockwait"
    /\ CanLock(mu)
    /\ mu' = [mu EXCEPT !.writer = "held"]
    /\ pc' = "swap"
    /\ UNCHANGED <<rules, built, hpc, resp, timer, sinceFinish, interval, lastGood, cycle>>

\* line 92
UpdateSwap ==
    /\ pc = "swap"
    /\ rules' = built
    /\ pc' = "unlock"
    /\ UNCHANGED <<built, mu, hpc, resp, timer, sinceFinish, interval, lastGood, cycle>>

\* lines 93-94
UpdateUnlock ==
    /\ pc = "unlock"
    /\ mu' = [mu EXCEPT !.writer = "none"]
    /\ pc' = "returned"
    /\ lastGood' = rules
    /\ cycle' = [cycle EXCEPT !.outcome = "ok"]
    /\ UNCHANGED <<rules, built, hpc, resp, timer, sinceFinish, interval>>

\* lines 108-112 after the first update, line 116 after a later one
ArmTimer ==
    /\ pc = "returned"
    /\ timer' = arm(effectiveInterval(interval))
    /\ sinceFinish' = 0
    /\ pc' = "wait"
    /\ UNCHANGED <<rules, built, mu, hpc, resp, interval, lastGood, cycle>>

\* an hour passes while the timer runs
Tick ==
    /\ Alive
    /\ timer > 0
    /\ timer' = timer - 1
    /\ sinceFinish' = IF pc = "wait" THEN sinceFinish + 1 ELSE sinceFinish
    /\ UNCHANGED <<pc, rules, built, mu, hpc, resp, interval, lastGood, cycle>>

\* line 114: the loop receives from timer.C and calls update (line 115)
TimerFires ==
    /\ pc = "wait"
    /\ timer = 0
    /\ timer' = NotArmed
    /\ pc' = "download"
    /\ cycle' = [n |-> 2, waited |-> sinceFinish, outcome |-> "running", fault |-> "none"]
    /\ UNCHANGED <<rules, built, mu, hpc, resp, sinceFinish, interval, lastGood>>

\* a request arrives: Handle is called
HandleCall(r) ==
    /\ Alive
    /\ hpc[r] = "idle"
    /\ hpc' = [hpc EXCEPT ![r] = "rlock"]
    /\ UNCHANGED <<pc, rules, built, mu, resp, timer, sinceFinish, interval, lastGood, cycle>>

\* line 53
HandleRLock(r) ==
    /\ Alive
    /\ hpc[r] = "rlock"
    /\ CanRLock(mu)
    /\ mu' = [mu EXCEPT !.readers = @ \cup {r}]
    /\ hpc' = [hpc EXCEPT ![r] = "write"]
    /\ UNCHANGED <<pc, rules, built, resp, timer, sinceFinish, interval, lastGood, cycle>>

\* line 55: the response write, made while the read lock is held
HandleWrite(r) ==
    /\ Alive
    /\ hpc[r] = "write"
    /\ resp' = [resp EXCEPT ![r] = rules]
    /\ hpc' = [hpc EXCEPT ![r] = "written"]
    /\ UNCHANGED <<pc, rules, built, mu, timer, sinceFinish, interval, lastGood, cycle>>

\* line 54, the deferred RUnlock: Handle returns
HandleRUnlock(r) ==
    /\ Alive
    /\ hpc[r] = "written"
    /\ mu' = [mu EXCEPT !.readers = @ \ {r}]
    /\ hpc' = [hpc EXCEPT ![r] = "idle"]
    /\ resp' = [resp EXCEPT ![r] = EmptyRules]
    /\ UNCHANGED <<pc, rules, built, timer, sinceFinish, interval, lastGood, cycle>>

Handle ==
    \E r \in Readers : HandleCall(r) \/ HandleRLock(r) \/ HandleWrite(r) \/ HandleRUnlock(r)

Next ==
    \/ (StartFirst /\ UNCHANGED <<parseVars, renderVars>>)
    \/ (UpdateFails /\ UNCHANGED <<parseVars, renderVars>>)
    \/ (UpdatePanics /\ UNCHANGED <<parseVars, renderVars>>)
    \/ (UpdateBuilds /\ UNCHANGED <<parseVars, renderVars>>)
    \/ (UpdateLock /\ UNCHANGED <<parseVars, renderVars>>)
    \/ (UpdateLockAcquire /\ UNCHANGED <<parseVars, renderVars>>)
    \/ (UpdateSwap /\ UNCHANGED <<parseVars, renderVars>>)
    \/ (UpdateUnlock /\ UNCHANGED <<parseVars, renderVars>>)
    \/ (ArmTimer /\ UNCHANGED <<parseVars, renderVars>>)
    \/ (Tick /\ UNCHANGED <<parseVars, renderVars>>)
    \/ (TimerFires /\ UNCHANGED <<parseVars, renderVars>>)
    \/ (Handle /\ UNCHANGED <<parseVars, renderVars>>)

Spec ==
    Init /\ [][Next]_vars

ProviderIdle ==
    /\ pc = "idle" /\ rules = EmptyRules /\ built = EmptyRules /\ mu = Unlocked
    /\ hpc = [r \in Readers |-> "idle"] /\ resp = [r \in Readers |-> EmptyRules]
    /\ timer = NotArmed /\ sinceFinish = 0 /\ interval = 0 /\ lastGood = EmptyRules
    /\ cycle = NoCycle

\* parseToList is called on a stream that decodes to any document
InitParse ==
    /\ doc \in Docs
    /\ scanErr \in BOOLEAN
    /\ pos = 1
    /\ acc = EmptyAcc
    /\ last = NoResult
    /\ out = NoOut
    /\ ppc = "scan"
    /\ ProviderIdle
    /\ RenderIdle

NextParse ==
    \/ (ScanLine /\ UNCHANGED <<providerVars, renderVars>>)
    \/ (ScanEnd /\ UNCHANGED <<providerVars, renderVars>>)

SpecParse ==
    InitParse /\ [][NextParse]_vars

(***************************************************************************)
(* SpecRender: renderClashRules over any three lists                       *)
(***************************************************************************)
\* the values the lists are drawn from
RenderValues ==
    {a_com, ip_1234}

RenderLists ==
    SeqsUpTo(RenderValues, MaxListLen)

InitRender ==
    /\ rin \in {[domainList |-> d, ipList |-> i, domainKeywordList |-> k] :
                    d \in RenderLists, i \in RenderLists, k \in RenderLists}
    /\ rout = <<>>
    /\ rpc = "call"
    /\ ProviderIdle
    /\ ParseIdle

Render ==
    /\ rpc = "call"
    /\ rout' = renderClashRules(rin.domainList, rin.ipList, rin.domainKeywordList)
    /\ rpc' = "returned"
    /\ UNCHANGED rin

NextRender ==
    Render /\ UNCHANGED <<providerVars, parseVars>>

SpecRender ==
    InitRender /\ [][NextRender]_vars

(***************************************************************************)
(* Properties                                                              *)
(***************************************************************************)
Running ==
    pc \in {"download", "lock", "lockwait", "swap", "unlock"}

\* C1: a cycle that meets a transport error, a status other than 200 or a
\* base64/scan error leaves s.rules as the last successful cycle published it
\* (empty if none did), and every Handle call made since writes exactly that
C1_StaleServe ==
    cycle.fault # "none" =>
        /\ rules = lastGood
        /\ \A r \in Readers : hpc[r] = "written" => resp[r] = lastGood

\* a failed cycle after a successful one, and a Handle call that has written the
\* document of the successful one
C1_Witness ==
    /\ cycle.fault = "decode" /\ cycle.outcome = "failed"
    /\ lastGood # EmptyRules
    /\ \E r \in Readers : hpc[r] = "written" /\ resp[r] = lastGood

\* C2: a Handle call writes the whole currently published document, which is the
\* previously published one or the newly rendered one; s.rules differs from the
\* last completed publication only between the swap and the Unlock, under the
\* write lock, which no reader shares
C2_AtomicPublish ==
    /\ \A r \in Readers : hpc[r] = "written" => resp[r] = rules
    /\ rules \in {lastGood, built}
    /\ rules # lastGood => pc = "unlock" /\ mu.writer = "held"
    /\ mu.writer = "held" => mu.readers = {}

\* a Handle call has written the published document while update waits for the
\* lock with a different document to publish
C2_Witness ==
    /\ pc = "lockwait" /\ built # rules /\ rules # EmptyRules
    /\ \E r \in Readers : hpc[r] = "written" /\ resp[r] = rules

\* C3: whatever the fetched document holds, the background task never
\* terminates abnormally
C3_NeverCrashes ==
    pc # "crashed"

\* C4: a Handle call that cannot take the read lock is waiting for update's
\* write-locked swap only, never for another Handle call that holds the read
\* lock while it writes its response
C4_BlockedOnlyBySwap ==
    \A r \in Readers :
        (hpc[r] = "rlock" /\ ~CanRLock(mu)) => mu.readers = {}

\* C5: the first cycle starts without any timer; while a cycle is in flight no
\* timer runs, so no other cycle can start; every later cycle starts only after
\* the interval (one hour when the configured one is <= 0) has passed since the
\* previous cycle finished; after every cycle the timer is armed again
C5_RefreshTiming ==
    /\ (cycle.n = 1 /\ Running) => (timer = NotArmed /\ sinceFinish = 0)
    /\ Running => timer = NotArmed
    /\ cycle.n = 2 => cycle.waited >= (IF interval <= 0 THEN defaultInterval ELSE interval)
    /\ pc = "wait" => timer >= 0
    /\ pc = "wait" => timer + sinceFinish = (IF interval <= 0 THEN defaultInterval ELSE interval)

\* a second cycle has started, one hour after the first finished, with no
\* interval configured
C5_Witness ==
    /\ cycle.n = 2 /\ pc = "download"
    /\ interval <= 0 /\ cycle.waited = defaultInterval

\* C6: "||sub.example.com" yields Domain "example.com" and
\* "||tracker.example.org^" yields Domain "example.org": a line that starts
\* with "||" is reduced to its last two labels
C6_DoublePipeReduced ==
    /\ (ppc = "returned" /\ doc = <<L_pp_sub_example>>) => last = Result(domain, example_com)
    /\ (ppc = "returned" /\ doc = <<L_pp_tracker>>) => last = Result(domain, example_org)

NoDuplicate(list) ==
    \A i, j \in 1..Len(list) : list[i] = list[j] => i = j

NoEmpty(list) ==
    \A i \in 1..Len(list) : list[i] # <<>>

\* the indices of the first occurrences of the non-empty values of list
FirstIndices(list) ==
    {i \in 1..Len(list) : list[i] # <<>> /\ \A j \in 1..(i - 1) : list[j] # list[i]}

\* the k-th smallest element of the set of indices I
Kth(I, k) ==
    CHOOSE i \in I : Cardinality({j \in I : j <= i}) = k

\* the first occurrences of the non-empty values of list, in the order of list
FirstOccurrences(list) ==
    [k \in 1..Cardinality(FirstIndices(list)) |-> list[Kth(FirstIndices(list), k)]]

\* C7: after a parse pass the domains and the ips hold no duplicate and no
\* empty string, each is the sequence of first occurrences of the non-empty
\* values classified into it, and uniqueList leaves each as it is
C7_Dedup ==
    ppc = "returned" =>
        /\ NoDuplicate(out.domainList) /\ NoEmpty(out.domainList)
        /\ NoDuplicate(out.ipList) /\ NoEmpty(out.ipList)
        /\ out.domainList = FirstOccurrences(acc.domainList)
        /\ out.ipList = FirstOccurrences(acc.ipList)
        /\ uniqueList(out.domainList) = out.domainList
        /\ uniqueList(out.ipList) = out.ipList

\* a pass that classified a duplicate and an empty value as Domain, and kept a value
C7_Witness ==
    /\ ppc = "returned"
    /\ ~NoDuplicate(acc.domainList) /\ ~NoEmpty(acc.domainList)
    /\ out.domainList # <<>>

\* C8 as stated: after the pass over "||a.com", "sub.a.com" the domains hold
\* "a.com" once and nothing else
C8_ScenarioE_AsStated ==
    (ppc = "returned" /\ doc = <<L_pp_a_com, L_sub_a_com>>) => out.domainList = <<a_com>>

\* C8, amended: "||a.com" is classified Domain "a.com" and "sub.a.com" Domain
\* "sub.a.com" (a line that only contains a '.' keeps its full host), so the
\* domains are "a.com", "sub.a.com": "a.com" exactly once
C8_ScenarioE ==
    (ppc = "returned" /\ doc = <<L_pp_a_com, L_sub_a_com>>) =>
        /\ out.domainList = <<a_com, sub_a_com>>
        /\ last = Result(domain, sub_a_com)
        /\ Cardinality({i \in 1..Len(out.domainList) : out.domainList[i] = a_com}) = 1
        /\ out.ipList = <<>> /\ out.domainKeywordList = <<>>

C8_Witness ==
    ppc = "returned" /\ doc = <<L_pp_a_com, L_sub_a_com>> /\ ~scanErr

\* the block of a rendered line: 1 DOMAIN-KEYWORD, 2 SRC-IP-CIDR, 3 DOMAIN-SUFFIX
Block(line) ==
    IF HasPrefix(line, KeywordPrefix) THEN 1
    ELSE IF HasPrefix(line, CidrPrefix) /\ HasSuffix(line, CidrSuffix) THEN 2
    ELSE IF HasPrefix(line, SuffixPrefix) THEN 3
    ELSE 0

\* C9: renderClashRules returns one line per entry: the DOMAIN-KEYWORD lines,
\* then the SRC-IP-CIDR lines, then the DOMAIN-SUFFIX lines, each block in the
\* order of its list
C9_RenderOrdering ==
    rpc = "returned" =>
        LET k == rin.domainKeywordList
            i == rin.ipList
            d == rin.domainList
        IN  /\ Len(rout) = Len(k) + Len(i) + Len(d)
            /\ \A n \in 1..Len(k) : rout[n] = KeywordPrefix \o k[n]
            /\ \A n \in 1..Len(i) : rout[Len(k) + n] = CidrPrefix \o i[n] \o CidrSuffix
            /\ \A n \in 1..Len(d) : rout[Len(k) + Len(i) + n] = SuffixPrefix \o d[n]
            /\ \A m, n \in 1..Len(rout) : m < n => Block(rout[m]) <= Block(rout[n])
            /\ \A n \in 1..Len(rout) : Block(rout[n]) # 0

\* a rendering of three non-empty lists
C9_Witness ==
    /\ rpc = "returned"
    /\ rin.domainKeywordList # <<>> /\ rin.ipList # <<>> /\ Len(rin.domainList) >= 2
    /\ rin.domainList[1] # rin.domainList[2]

\* C10: no line is classified as DomainKeyword, so after a parse pass
\* domainKeywords is empty and the rendered document holds no DOMAIN-KEYWORD line
C10_NoDomainKeyword ==
    /\ last.t # domainKeyword
    /\ acc.domainKeywordList = <<>>
    /\ out.domainKeywordList = <<>>
    /\ ppc = "returned" =>
        \A n \in 1..Len(renderClashRules(out.domainList, out.ipList, out.domainKeywordList)) :
            Block(renderClashRules(out.domainList, out.ipList, out.domainKeywordList)[n]) # 1

\* a line of the "." branch whose host ends with the wildcard has been classified
C10_Witness ==
    /\ ppc = "returned" /\ Len(doc) = 1
    /\ HasPrefix(doc[1], <<".">>) /\ HasSuffix(doc[1], <<".", "*">>)
    /\ last.t = domain /\ acc.domainList # <<>>

====
